---------------------------- MODULE Spec2Model ----------------------------
(***************************************************************************)
(* Scene generator (src/app.py): prompt-to-layout inference, the session's *)
(* character list and its handlers, the z-ordered compositor and the       *)
(* exporters, as a state machine.  One script run is a sequence of steps:  *)
(* a widget interaction, the handler it triggers, one step per character   *)
(* of the per-character controls loop, the compositing pass, the exports.  *)
(*                                                                         *)
(* A text is held as a string; letters gives its characters, on which the     *)
(* keyword search is real substring search.  A scale is held in hundredths *)
(* (50 is 0.50).                                                           *)
(***************************************************************************)
EXTENDS Integers, Sequences, FiniteSets

VARIABLES
    prompt,              \* st.text_area value, a text
    canvas_w, canvas_h,  \* st.number_input values
    characters,          \* st.session_state.characters
    add_btn, char_files, \* add button and the uploaded sprite files of this run
    auto_place_clicked,  \* auto-place button of this run
    touched,             \* whether the widget that triggered this run is consumed
    pc,                  \* position of the script run
    order, ci,           \* controls loop: the sorted() snapshot and its index
    composite,           \* the composed image, as its sequence of layers
    png_bytes, scene_dict, pdf_bytes, pdf_disabled,   \* exports of the run
    pdf_raised,          \* history: whether PDF generation raised in the run
    infer_calls,         \* history: (index, total) of this run's inference calls
    edits, removes,      \* history: field edits and z bumps, and removals, so far
    scenario,            \* history: stage of the end-to-end scenario
    h_total, h_pts       \* inference harness: total, and the anchors returned

vars == << prompt, canvas_w, canvas_h, characters, add_btn, char_files,
           auto_place_clicked, touched, pc, order, ci, composite, png_bytes,
           scene_dict, pdf_bytes, pdf_disabled, pdf_raised, infer_calls, edits, removes,
           scenario,
           h_total, h_pts >>

-----------------------------------------------------------------------------
(* Bounds of the model *)

\* most characters a scene holds (the add handler is not offered past it)
MaxChars == 3
\* most field edits and z bumps of one session
MaxEdits == 1
\* most uses of the per-character controls (edits, z bumps, removals) of one
\* session
MaxTouches == 2
\* largest total the inference harness tries
MaxN == 6

-----------------------------------------------------------------------------
(* Keyword tables and texts *)

\* the keyword list with the one-word keywords first: a variant in which
\* "left" and "top" are tried before "top-left"
POSITION_KEYWORDS_short_first ==
    << "left", "right", "top", "bottom",
       "top-left", "top-right", "bottom-left", "bottom-right",
       "center", "middle" >>

POSITION_KEYWORDS ==
    << "top-left", "top-right", "bottom-left", "bottom-right",
       "left", "right", "top", "bottom",
       "center", "middle" >>

ACTION_KEYWORDS ==
    << "walking", "running", "sitting", "standing", "waving", "talking",
       "reading", "pointing", "dancing", "jumping", "holding", "looking" >>

\* the prompt box's initial text
DefaultPrompt ==
    "Two characters sitting at a table on the right; one is waving, the other is reading."
\* texts a user types
ScenarioPrompt ==
    "sitting at a table on the right"
PlainPrompt ==
    "two friends waving"
EmptyPrompt ==
    ""
TopLeftPrompt ==
    "Dancing in the Top-Left corner"
LeftTopPrompt ==
    "left of the top shelf"
MiddleBottomPrompt ==
    "middle of the bottom row"
CenterPrompt ==
    "standing at the CENTER"
BottomRightPrompt ==
    "reading, bottom-right"
TopRightPrompt ==
    "jumping top-right"
BottomLeftPrompt ==
    "bottom-left"
MiddlePrompt ==
    "in the middle"

\* the characters of each text of the model
letters(s) ==
    CASE s = "top-left" ->
           << "t","o","p","-","l","e","f","t" >>
      [] s = "top-right" ->
           << "t","o","p","-","r","i","g","h","t" >>
      [] s = "bottom-left" ->
           << "b","o","t","t","o","m","-","l","e","f","t" >>
      [] s = "bottom-right" ->
           << "b","o","t","t","o","m","-","r","i","g","h","t" >>
      [] s = "left" ->
           << "l","e","f","t" >>
      [] s = "right" ->
           << "r","i","g","h","t" >>
      [] s = "top" ->
           << "t","o","p" >>
      [] s = "bottom" ->
           << "b","o","t","t","o","m" >>
      [] s = "center" ->
           << "c","e","n","t","e","r" >>
      [] s = "middle" ->
           << "m","i","d","d","l","e" >>
      [] s = "walking" ->
           << "w","a","l","k","i","n","g" >>
      [] s = "running" ->
           << "r","u","n","n","i","n","g" >>
      [] s = "sitting" ->
           << "s","i","t","t","i","n","g" >>
      [] s = "standing" ->
           << "s","t","a","n","d","i","n","g" >>
      [] s = "waving" ->
           << "w","a","v","i","n","g" >>
      [] s = "talking" ->
           << "t","a","l","k","i","n","g" >>
      [] s = "reading" ->
           << "r","e","a","d","i","n","g" >>
      [] s = "pointing" ->
           << "p","o","i","n","t","i","n","g" >>
      [] s = "dancing" ->
           << "d","a","n","c","i","n","g" >>
      [] s = "jumping" ->
           << "j","u","m","p","i","n","g" >>
      [] s = "holding" ->
           << "h","o","l","d","i","n","g" >>
      [] s = "looking" ->
           << "l","o","o","k","i","n","g" >>
      [] s = DefaultPrompt ->
           << "T","w","o"," ","c","h","a","r","a","c","t","e","r","s"," ",
              "s","i","t","t","i","n","g"," ","a","t"," ","a"," ","t","a",
              "b","l","e"," ","o","n"," ","t","h","e"," ","r","i","g","h",
              "t",";"," ","o","n","e"," ","i","s"," ","w","a","v","i","n",
              "g",","," ","t","h","e"," ","o","t","h","e","r"," ","i","s",
              " ","r","e","a","d","i","n","g","." >>
      [] s = ScenarioPrompt ->
           << "s","i","t","t","i","n","g"," ","a","t"," ","a"," ","t","a",
              "b","l","e"," ","o","n"," ","t","h","e"," ","r","i","g","h",
              "t" >>
      [] s = PlainPrompt ->
           << "t","w","o"," ","f","r","i","e","n","d","s"," ","w","a","v",
              "i","n","g" >>
      [] s = EmptyPrompt ->
           << >>
      [] s = TopLeftPrompt ->
           << "D","a","n","c","i","n","g"," ","i","n"," ","t","h","e"," ",
              "T","o","p","-","L","e","f","t"," ","c","o","r","n","e","r" >>
      [] s = LeftTopPrompt ->
           << "l","e","f","t"," ","o","f"," ","t","h","e"," ","t","o","p",
              " ","s","h","e","l","f" >>
      [] s = MiddleBottomPrompt ->
           << "m","i","d","d","l","e"," ","o","f"," ","t","h","e"," ","b",
              "o","t","t","o","m"," ","r","o","w" >>
      [] s = CenterPrompt ->
           << "s","t","a","n","d","i","n","g"," ","a","t"," ","t","h","e",
              " ","C","E","N","T","E","R" >>
      [] s = BottomRightPrompt ->
           << "r","e","a","d","i","n","g",","," ","b","o","t","t","o","m",
              "-","r","i","g","h","t" >>
      [] s = TopRightPrompt ->
           << "j","u","m","p","i","n","g"," ","t","o","p","-","r","i","g",
              "h","t" >>
      [] s = BottomLeftPrompt ->
           << "b","o","t","t","o","m","-","l","e","f","t" >>
      [] s = MiddlePrompt ->
           << "i","n"," ","t","h","e"," ","m","i","d","d","l","e" >>

-----------------------------------------------------------------------------
(* Utilities *)

UpperLetters ==
    << "A","B","C","D","E","F","G","H","I","J","K","L","M",
       "N","O","P","Q","R","S","T","U","V","W","X","Y","Z" >>

LowerLetters ==
    << "a","b","c","d","e","f","g","h","i","j","k","l","m",
       "n","o","p","q","r","s","t","u","v","w","x","y","z" >>

\* str.lower() on one character
LowerChar(c) ==
    IF \E i \in 1..26 : UpperLetters[i] = c
    THEN LowerLetters[CHOOSE i \in 1..26 : UpperLetters[i] = c]
    ELSE c

\* (prompt or "").lower(), on the characters
RECURSIVE Lower(_)
Lower(text) ==
    IF text = <<>> THEN <<>>
    ELSE <<LowerChar(Head(text))>> \o Lower(Tail(text))

\* key in p: substring search
Contains(p, key) ==
    \E i \in 1..(Len(p) - Len(key) + 1) : SubSeq(p, i, i + Len(key) - 1) = key

pad == 40

\* the dict with the "right" anchor on the bottom edge: a variant
spots_right_low(W, H) ==
    [key \in {POSITION_KEYWORDS[k] : k \in 1..Len(POSITION_KEYWORDS)} |->
        CASE key = "top-left" -> <<pad, pad>>
          [] key = "top-right" -> <<W - pad, pad>>
          [] key = "bottom-left" -> <<pad, H - pad>>
          [] key = "bottom-right" -> <<W - pad, H - pad>>
          [] key = "left" -> <<pad, H \div 2>>
          [] key = "right" -> <<W - pad, H - pad>>
          [] key = "top" -> <<W \div 2, pad>>
          [] key = "bottom" -> <<W \div 2, H - pad>>
          [] key = "center" -> <<W \div 2, H \div 2>>
          [] key = "middle" -> <<W \div 2, H \div 2>>]

\* the dict of anchor points, keyed by keyword
spots(W, H) ==
    [key \in {POSITION_KEYWORDS[k] : k \in 1..Len(POSITION_KEYWORDS)} |->
        CASE key = "top-left" -> <<pad, pad>>
          [] key = "top-right" -> <<W - pad, pad>>
          [] key = "bottom-left" -> <<pad, H - pad>>
          [] key = "bottom-right" -> <<W - pad, H - pad>>
          [] key = "left" -> <<pad, H \div 2>>
          [] key = "right" -> <<W - pad, H \div 2>>
          [] key = "top" -> <<W \div 2, pad>>
          [] key = "bottom" -> <<W \div 2, H - pad>>
          [] key = "center" -> <<W \div 2, H \div 2>>
          [] key = "middle" -> <<W \div 2, H \div 2>>]

\* for key in POSITION_KEYWORDS: if key in p: the index of the first key found
\* from position k on, 0 when the loop falls through
RECURSIVE first_key(_, _)
first_key(p, k) ==
    IF k > Len(POSITION_KEYWORDS) THEN 0
    ELSE IF Contains(p, letters(POSITION_KEYWORDS[k])) THEN k
    ELSE first_key(p, k + 1)

\* the divisor without the + 1: a variant
fallback_divisor_total(total) ==
    total

\* the divisor of the fallback spacing
fallback_divisor(total) ==
    total + 1

\* the spacing counted from index instead of index + 1: a variant
fallback_spot_from_zero(W, H, index, total) ==
    << pad + (index * (W - 2 * pad)) \div fallback_divisor(total),
       H - pad >>

\* fallback: evenly spaced along the bottom (// is floor division)
fallback_spot(W, H, index, total) ==
    << pad + ((index + 1) * (W - 2 * pad)) \div fallback_divisor(total),
       H - pad >>

infer_position_from_prompt(text, W, H, index, total) ==
    LET p == Lower(letters(text))
        k == first_key(p, 1)
    IN  IF k # 0 THEN spots(W, H)[POSITION_KEYWORDS[k]]
        ELSE fallback_spot(W, H, index, total)

extract_actions(text) ==
    LET p == Lower(letters(text))
    IN  SelectSeq(ACTION_KEYWORDS, LAMBDA v : Contains(p, letters(v)))

\* int(ch.scale * 100) for a scale of s hundredths, in IEEE doubles: the
\* product falls just below the integer for these s and is truncated
int_scale_100(s) ==
    IF s \in {29, 57, 58, 113, 114, 115, 116} THEN s - 1 ELSE s

\* f"Char {idx+1}"
char_name(k) ==
    << "Char 1", "Char 2", "Char 3", "Char 4", "Char 5", "Char 6", "Char 7",
       "Char 8", "Char 9", "Char 10", "Char 11", "Char 12" >>[k]

\* the dataclass: flip_h defaults to False
Character(name, raw_bytes, x, y, scale, actions, z) ==
    [name |-> name, raw_bytes |-> raw_bytes, x |-> x, y |-> y, scale |-> scale,
     flip_h |-> FALSE, actions |-> actions, z |-> z]

\* an unstable sort, which places a position before the positions of equal z
\* already placed: a variant
RECURSIVE insert_by_z_unstable(_, _, _)
insert_by_z_unstable(chars, sorted, i) ==
    IF sorted = <<>> THEN <<i>>
    ELSE IF chars[sorted[Len(sorted)]].z < chars[i].z THEN Append(sorted, i)
    ELSE Append(insert_by_z_unstable(chars, SubSeq(sorted, 1, Len(sorted) - 1), i),
                sorted[Len(sorted)])

\* sorted(..., key=lambda c: c.z), as list positions: a stable sort, so a
\* position is placed after every position already placed whose z is not larger
RECURSIVE insert_by_z(_, _, _)
insert_by_z(chars, sorted, i) ==
    IF sorted = <<>> THEN <<i>>
    ELSE IF chars[sorted[Len(sorted)]].z <= chars[i].z THEN Append(sorted, i)
    ELSE Append(insert_by_z(chars, SubSeq(sorted, 1, Len(sorted) - 1), i),
                sorted[Len(sorted)])

RECURSIVE sorted_prefix(_, _)
sorted_prefix(chars, n) ==
    IF n = 0 THEN <<>>
    ELSE insert_by_z(chars, sorted_prefix(chars, n - 1), n)

sorted_by_z(chars) ==
    sorted_prefix(chars, Len(chars))

\* the list without the element at position i
remove_at(list, i) ==
    SubSeq(list, 1, i - 1) \o SubSeq(list, i + 1, Len(list))

\* list.remove(ch): removes the first element equal to ch, and the dataclass
\* compares by its fields
list_remove(list, ch) ==
    remove_at(list, CHOOSE i \in 1..Len(list) :
                        /\ list[i] = ch
                        /\ \A j \in 1..(i - 1) : list[j] # ch)
-----------------------------------------------------------------------------
(* Inputs the user may give *)

\* texts typed into the prompt box in a session
Prompts == {ScenarioPrompt, PlainPrompt}

\* canvas size of a session: the default of the two number inputs
Canvases == {<<1280, 720>>}

\* contents of the sprite files a user uploads
Files == {"sprite_a"}

\* what the multi-file uploader may hold when the add button is clicked
UploadChoices == UNION {[1..k -> Files] : k \in 0..MaxChars}

\* values given to a character's name box and scale slider (20 to 200 percent
\* in steps of 5); the x slider is moved to the right end of its range, the y
\* slider to the top end
NameInputs == {"Hero"}
ScaleInputs == {115}

NoOutput == [kind |-> "unset"]

-----------------------------------------------------------------------------
(* Handlers, as functions of the state they read *)

\* the add loop from file i on: idx is len(characters) + i with the list as it
\* is at that iteration
RECURSIVE add_loop(_, _, _, _, _, _, _, _)
add_loop(acc, files, i, total_after, actions_from_prompt, text, W, H) ==
    IF i >= Len(files) THEN acc
    ELSE LET idx == Len(acc.chars) + i
             xy  == infer_position_from_prompt(text, W, H, idx, total_after)
             ch  == Character(char_name(idx + 1), files[i + 1], xy[1], xy[2],
                              50, actions_from_prompt, idx)
         IN  add_loop([chars |-> Append(acc.chars, ch),
                       calls |-> Append(acc.calls, <<idx, total_after>>)],
                      files, i + 1, total_after, actions_from_prompt,
                      text, W, H)

\* if add_btn and char_files: ...
add_uploaded(chars, files, text, W, H) ==
    add_loop([chars |-> chars, calls |-> <<>>], files, 0,
             Len(chars) + Len(files), extract_actions(text), text, W, H)

\* auto-place with the index counted from 1: a variant
auto_place_one_based(chars, text, W, H) ==
    LET n == Len(chars)
        actions_from_prompt == extract_actions(text)
    IN  [i \in 1..n |->
            LET xy == infer_position_from_prompt(text, W, H, i, n)
            IN  [chars[i] EXCEPT !.x = xy[1], !.y = xy[2],
                                 !.actions = actions_from_prompt]]

\* if auto_place_clicked and st.session_state.characters: ...
auto_place(chars, text, W, H) ==
    LET n == Len(chars)
        actions_from_prompt == extract_actions(text)
    IN  [i \in 1..n |->
            LET xy == infer_position_from_prompt(text, W, H, i - 1, n)
            IN  [chars[i] EXCEPT !.x = xy[1], !.y = xy[2],
                                 !.actions = actions_from_prompt]]

auto_place_calls(chars) ==
    [i \in 1..Len(chars) |-> <<i - 1, Len(chars)>>]

\* what the widgets of one character's controls return in a run: the value
\* each widget is created with (name, int(ch.scale * 100), flip_h, x, y), no
\* button pressed ...
widget_defaults(ch) ==
    [new_name |-> ch.name, new_scale |-> int_scale_100(ch.scale),
     flip_h |-> ch.flip_h, new_x |-> ch.x, new_y |-> ch.y,
     z_up |-> FALSE, z_down |-> FALSE, remove |-> FALSE]

\* ... but for the one widget the user touched, if it is one of these
field_edits(ch, W, H) ==
    LET d == widget_defaults(ch)
    IN  {[d EXCEPT !.new_name = v] : v \in NameInputs}
          \cup {[d EXCEPT !.new_scale = v] : v \in ScaleInputs}
          \cup {[d EXCEPT !.flip_h = ~ch.flip_h]}
          \cup {[d EXCEPT !.new_x = W], [d EXCEPT !.new_y = 0]}
          \cup {[d EXCEPT !.z_up = TRUE], [d EXCEPT !.z_down = TRUE]}

\* "Apply edits" and the z buttons, lines 226-235
apply_edits(ch, w) ==
    [ch EXCEPT !.name = w.new_name, !.scale = w.new_scale,
               !.flip_h = w.flip_h, !.x = w.new_x, !.y = w.new_y,
               !.z = ch.z + (IF w.z_up THEN 1 ELSE 0)
                          - (IF w.z_down THEN 1 ELSE 0)]

\* Image.new + alpha_composite(bg_img), then paste_rgba per character in z
\* order: the layers, bottom first
compose(chars, W, H) ==
    LET by_z == sorted_by_z(chars)
    IN  << [kind |-> "bg", w |-> W, h |-> H] >> \o
        [k \in 1..Len(chars) |->
            [kind |-> "sprite", src |-> by_z[k],
             raw_bytes |-> chars[by_z[k]].raw_bytes,
             flip_h |-> chars[by_z[k]].flip_h, scale |-> chars[by_z[k]].scale,
             x_center |-> chars[by_z[k]].x, y_bottom |-> chars[by_z[k]].y]]

\* image_to_bytes(composite, "PNG"): lossless
image_to_bytes(img) ==
    [kind |-> "png", image |-> img]

make_scene_dict(text, W, H, chars) ==
    [kind |-> "scene", prompt |-> text, canvas |-> [width |-> W, height |-> H],
     characters |-> [i \in 1..Len(chars) |->
        [name |-> chars[i].name, x |-> chars[i].x, y |-> chars[i].y,
         scale |-> chars[i].scale, flip_h |-> chars[i].flip_h,
         z |-> chars[i].z, actions |-> chars[i].actions]]]

\* build_pdf_doc() returning empty bytes instead of None on failure: a variant
build_pdf_doc_empty_bytes(raises, text, img, chars) ==
    IF raises THEN [kind |-> "bytes", data |-> <<>>]
    ELSE [kind |-> "pdf", prompt |-> text, image |-> image_to_bytes(img),
          meta |-> <<>>]

\* build_pdf_doc(): the document, or None when anything in the try block raises
build_pdf_doc(raises, text, img, chars) ==
    IF raises THEN [kind |-> "None"]
    ELSE [kind |-> "pdf", prompt |-> text, image |-> image_to_bytes(img),
          meta |-> [i \in 1..Len(chars) |->
             [name |-> chars[i].name, x |-> chars[i].x, y |-> chars[i].y,
              scale_pct |-> int_scale_100(chars[i].scale),
              flip_h |-> chars[i].flip_h, z |-> chars[i].z,
              actions |-> chars[i].actions]]]

-----------------------------------------------------------------------------
(* The session *)

Init ==
    /\ prompt = DefaultPrompt
    /\ \E c \in Canvases : canvas_w = c[1] /\ canvas_h = c[2]
    /\ characters = <<>>
    /\ add_btn = FALSE /\ char_files = <<>> /\ auto_place_clicked = FALSE
    /\ touched = FALSE /\ pc = "idle" /\ order = <<>> /\ ci = 0
    /\ composite = <<>>
    /\ png_bytes = NoOutput /\ scene_dict = NoOutput /\ pdf_bytes = NoOutput
    /\ pdf_disabled = FALSE /\ pdf_raised = FALSE
    /\ infer_calls = <<>> /\ edits = 0 /\ removes = 0 /\ scenario = "off"
    /\ h_total = 0 /\ h_pts = <<>>

\* a script run starts: nothing of the previous run's page is left
RunStarts ==
    /\ pc = "idle"
    /\ composite' = <<>>
    /\ png_bytes' = NoOutput /\ scene_dict' = NoOutput /\ pdf_bytes' = NoOutput
    /\ pdf_disabled' = FALSE /\ pdf_raised' = FALSE
    /\ UNCHANGED << canvas_w, canvas_h, edits, removes, h_total, h_pts >>

\* the script reaches the controls loop with the list chars
EnterControls(chars) ==
    /\ order' = sorted_by_z(chars)
    /\ ci' = 0
    /\ pc' = IF chars = <<>> THEN "compose" ELSE "controls"

\* a run triggered by an edit of the prompt text: no handler acts
ChangePrompt ==
    /\ RunStarts
    /\ \E p \in Prompts \ {prompt} : prompt' = p
    /\ touched' = TRUE
    /\ EnterControls(characters)
    /\ scenario' = "off"
    /\ UNCHANGED << characters, add_btn, char_files, auto_place_clicked,
                    infer_calls >>

\* a run triggered by a widget of the per-character controls, or by nothing
\* of the scene: the script reaches the controls loop with no handler acting
Rerun ==
    /\ RunStarts
    /\ touched' = FALSE
    /\ EnterControls(characters)
    /\ UNCHANGED << prompt, characters, add_btn, char_files, auto_place_clicked,
                    infer_calls, scenario >>

\* a run triggered by "Add Uploaded Characters", lines 166-184
AddHandler ==
    /\ RunStarts
    /\ add_btn' = TRUE
    /\ touched' = TRUE
    /\ \E files \in UploadChoices :
          /\ Len(characters) + Len(files) <= MaxChars
          /\ char_files' = files
          /\ IF files # <<>>
             THEN LET r == add_uploaded(characters, files, prompt,
                                        canvas_w, canvas_h)
                  IN  /\ characters' = r.chars
                      /\ infer_calls' = r.calls
                      /\ scenario' = IF /\ characters = <<>>
                                        /\ Len(files) = 2
                                        /\ prompt = ScenarioPrompt
                                        /\ canvas_w = 1280 /\ canvas_h = 720
                                     THEN "added2" ELSE "off"
             ELSE UNCHANGED << characters, infer_calls, scenario >>
    /\ EnterControls(characters')
    /\ UNCHANGED << prompt, auto_place_clicked >>

\* a run triggered by "Auto-place from prompt", lines 193-201
AutoPlaceHandler ==
    /\ RunStarts
    /\ auto_place_clicked' = TRUE
    /\ touched' = TRUE
    /\ IF characters # <<>>
       THEN /\ characters' = auto_place(characters, prompt, canvas_w, canvas_h)
            /\ infer_calls' = auto_place_calls(characters)
            /\ scenario' = IF scenario = "removed1" /\ prompt = ScenarioPrompt
                           THEN "repositioned" ELSE "off"
       ELSE UNCHANGED << characters, infer_calls, scenario >>
    /\ EnterControls(characters')
    /\ UNCHANGED << prompt, add_btn, char_files >>

\* lines 210-240: the loop body for the character at place ci of the sorted
\* snapshot.  At most one widget per run is the one the user touched.
ControlsStep ==
    /\ pc = "controls"
    /\ LET li == order[ci + 1]
           d  == widget_defaults(characters[li])
       IN  \E w \in {d}
                  \cup (IF ~touched /\ edits < MaxEdits
                           /\ edits + removes < MaxTouches
                        THEN field_edits(characters[li], canvas_w, canvas_h)
                        ELSE {})
                  \cup (IF ~touched /\ edits + removes < MaxTouches
                        THEN {[d EXCEPT !.remove = TRUE]} ELSE {}) :
              LET ch     == apply_edits(characters[li], w)
                  edited == [characters EXCEPT ![li] = ch]
              IN  /\ touched' = (touched \/ w # d)
                  /\ edits' = IF w # d /\ ~w.remove THEN edits + 1 ELSE edits
                  /\ removes' = IF w.remove THEN removes + 1 ELSE removes
                  /\ IF w.remove
                     THEN \* characters.remove(ch); st.experimental_rerun():
                          \* the script starts over, nothing pressed
                          /\ characters' = list_remove(edited, ch)
                          /\ EnterControls(characters')
                          /\ add_btn' = FALSE /\ char_files' = <<>>
                          /\ auto_place_clicked' = FALSE
                          /\ infer_calls' = <<>>
                          /\ scenario' = IF scenario = "added2"
                                         THEN "removed1" ELSE "off"
                     ELSE /\ characters' = edited
                          /\ IF ci + 1 < Len(order)
                             THEN ci' = ci + 1 /\ pc' = "controls"
                             ELSE ci' = 0 /\ pc' = "compose"
                          /\ scenario' = IF w # d THEN "off" ELSE scenario
                          /\ UNCHANGED << order, add_btn, char_files,
                                          auto_place_clicked, infer_calls >>
    /\ UNCHANGED << prompt, canvas_w, canvas_h, composite, png_bytes, scene_dict,
                    pdf_bytes, pdf_disabled, pdf_raised, h_total, h_pts >>

\* lines 246-255
ComposePreview ==
    /\ pc = "compose"
    /\ composite' = compose(characters, canvas_w, canvas_h)
    /\ pc' = "export"
    /\ UNCHANGED << prompt, canvas_w, canvas_h, characters, add_btn, char_files,
                    auto_place_clicked, touched, order, ci, png_bytes,
                    scene_dict, pdf_bytes, pdf_disabled, pdf_raised,
                    infer_calls, edits, removes, scenario, h_total, h_pts >>

\* lines 258-401: the three downloads; PDF generation may raise, and the run
\* ends with the page drawn
Export ==
    /\ pc = "export"
    /\ png_bytes' = image_to_bytes(composite)
    /\ scene_dict' = make_scene_dict(prompt, canvas_w, canvas_h, characters)
    /\ \E raises \in BOOLEAN :
          /\ pdf_raised' = raises
          /\ pdf_bytes' = build_pdf_doc(raises, prompt, composite, characters)
    /\ pdf_disabled' = (pdf_bytes'.kind = "None")
    /\ pc' = "idle"
    /\ add_btn' = FALSE /\ char_files' = <<>> /\ auto_place_clicked' = FALSE
    /\ touched' = FALSE /\ order' = <<>> /\ ci' = 0 /\ infer_calls' = <<>>
    /\ UNCHANGED << prompt, canvas_w, canvas_h, characters, composite, edits,
                    removes, scenario, h_total, h_pts >>

Next ==
    \/ ChangePrompt
    \/ Rerun
    \/ AddHandler
    \/ AutoPlaceHandler
    \/ ControlsStep
    \/ ComposePreview
    \/ Export

Spec == Init /\ [][Next]_vars

-----------------------------------------------------------------------------
(* Position inference alone: the anchors returned for one prompt, canvas and  *)
(* total, index after index                                                  *)

AllPrompts ==
    {DefaultPrompt, ScenarioPrompt, PlainPrompt, EmptyPrompt, TopLeftPrompt,
     LeftTopPrompt, MiddleBottomPrompt, CenterPrompt, BottomRightPrompt,
     TopRightPrompt, BottomLeftPrompt, MiddlePrompt}

InferCanvases == {<<480, 270>>, <<512, 288>>, <<1280, 720>>, <<4096, 4096>>}

InitInfer ==
    /\ prompt \in AllPrompts
    /\ \E c \in InferCanvases : canvas_w = c[1] /\ canvas_h = c[2]
    /\ h_total \in 0..MaxN
    /\ h_pts = <<>>
    /\ characters = <<>>
    /\ add_btn = FALSE /\ char_files = <<>> /\ auto_place_clicked = FALSE
    /\ touched = FALSE /\ pc = "idle" /\ order = <<>> /\ ci = 0
    /\ composite = <<>>
    /\ png_bytes = NoOutput /\ scene_dict = NoOutput /\ pdf_bytes = NoOutput
    /\ pdf_disabled = FALSE /\ pdf_raised = FALSE
    /\ infer_calls = <<>> /\ edits = 0 /\ removes = 0 /\ scenario = "off"

\* the call with index = the number of anchors returned so far
InferCall ==
    /\ Len(h_pts) < MaxN
    /\ h_pts' = Append(h_pts, infer_position_from_prompt(
                                 prompt, canvas_w, canvas_h, Len(h_pts), h_total))
    /\ UNCHANGED << prompt, canvas_w, canvas_h, characters, add_btn, char_files,
                    auto_place_clicked, touched, pc, order, ci, composite,
                    png_bytes, scene_dict, pdf_bytes, pdf_disabled, pdf_raised,
                    infer_calls, edits, removes, scenario, h_total >>

NextInfer ==
    InferCall

SpecInfer == InitInfer /\ [][NextInfer]_vars

-----------------------------------------------------------------------------
(* Properties *)

\* the state right after the add handler acted on k >= 1 files
JustAdded ==
    pc = "controls" /\ ci = 0 /\ add_btn /\ char_files # <<>>

\* the state right after the auto-place handler acted on a non-empty scene
JustAutoPlaced ==
    pc = "controls" /\ ci = 0 /\ auto_place_clicked

\* whether the text holds the keyword, case-insensitively
Mentions(text, key) ==
    Contains(Lower(letters(text)), letters(key))

NoPositionKeyword(text) ==
    \A k \in 1..Len(POSITION_KEYWORDS) : ~Mentions(text, POSITION_KEYWORDS[k])

\* C1: one add of k >= 1 sprites to a scene of n characters appends exactly k
\* characters, and the j-th of them (j = 0..k-1) gets z = n + j.
C1_SequentialZ ==
    [][ (pc = "idle" /\ add_btn' /\ char_files' # <<>>) =>
          LET n == Len(characters)
              k == Len(char_files')
          IN  /\ Len(characters') = n + k
              /\ \A j \in 0..(k - 1) : characters'[n + j + 1].z = n + j ]_vars

\* C2: canvas 1280x720, prompt "sitting at a table on the right": after adding
\* 2 characters to the empty scene both are at (1240, 360); after then removing
\* one and running reposition-all the one left is at (1240, 360), and the JSON
\* export lists exactly one character, with x = 1240 and y = 360.
C2_EndToEnd ==
    /\ scenario = "added2" =>
          /\ Len(characters) = 2
          /\ \A i \in 1..2 : characters[i].x = 1240 /\ characters[i].y = 360
    /\ scenario = "repositioned" =>
          /\ Len(characters) = 1
          /\ characters[1].x = 1240 /\ characters[1].y = 360
          /\ scene_dict.kind = "scene" =>
                /\ Len(scene_dict.characters) = 1
                /\ scene_dict.characters[1].x = 1240
                /\ scene_dict.characters[1].y = 360

C2_Witness ==
    scenario = "repositioned" /\ pc = "idle" /\ scene_dict.kind = "scene"

\* the priority order and two of the anchors, as the claim C3 states them
C3_Order ==
    << "top-left", "top-right", "bottom-left", "bottom-right", "left", "right",
       "top", "bottom", "center", "middle" >>

\* C3: when a position keyword occurs in the prompt (case-insensitively), every
\* call returns the anchor of the first keyword of the priority order that
\* occurs, whatever index and total; a prompt with "top-left" never gets the
\* "top" anchor (W//2, 40) nor the "left" anchor (40, H//2).
C3_FirstKeywordWins ==
    \A i \in 1..Len(h_pts) :
        /\ ~NoPositionKeyword(prompt) =>
              LET first == CHOOSE k \in 1..Len(C3_Order) :
                              /\ Mentions(prompt, C3_Order[k])
                              /\ \A j \in 1..(k - 1) : ~Mentions(prompt, C3_Order[j])
              IN  h_pts[i] = spots(canvas_w, canvas_h)[C3_Order[first]]
        /\ Mentions(prompt, "top-left") =>
              /\ h_pts[i] # <<canvas_w \div 2, 40>>
              /\ h_pts[i] # <<40, canvas_h \div 2>>

C3_Witness ==
    prompt = TopLeftPrompt /\ h_total = 3 /\ Len(h_pts) = 3

\* the first N anchors of a run of the harness with total = N
FallbackRun ==
    NoPositionKeyword(prompt) /\ h_total >= 1 /\ Len(h_pts) >= h_total

\* C4 as stated: with no keyword in the prompt, the N anchors for index
\* 0..N-1 and total N have strictly increasing x with all consecutive
\* differences equal, between 40 and W - 40, and y = H - 40.
C4_EvenlySpaced ==
    FallbackRun =>
        /\ \A i \in 1..h_total :
              /\ pad <= h_pts[i][1] /\ h_pts[i][1] <= canvas_w - pad
              /\ h_pts[i][2] = canvas_h - pad
        /\ \A i \in 1..(h_total - 1) : h_pts[i][1] < h_pts[i + 1][1]
        /\ \A i, j \in 1..(h_total - 1) :
              h_pts[i + 1][1] - h_pts[i][1] = h_pts[j + 1][1] - h_pts[j][1]

\* C4 amended: with no keyword in the prompt and N + 1 <= W - 80, the N
\* anchors have strictly increasing x, strictly between 40 and W - 40, any two
\* consecutive differences differing by at most 1 (whole pixels), and y = H - 40.
C4_SpacedToThePixel ==
    (FallbackRun /\ h_total + 1 <= canvas_w - 2 * pad) =>
        /\ \A i \in 1..h_total :
              /\ pad < h_pts[i][1] /\ h_pts[i][1] < canvas_w - pad
              /\ h_pts[i][2] = canvas_h - pad
        /\ \A i \in 1..(h_total - 1) : h_pts[i][1] < h_pts[i + 1][1]
        /\ \A i, j \in 1..(h_total - 1) :
              LET di == h_pts[i + 1][1] - h_pts[i][1]
                  dj == h_pts[j + 1][1] - h_pts[j][1]
              IN  di - dj <= 1 /\ dj - di <= 1

C4_Witness ==
    /\ FallbackRun /\ h_total = 4 /\ canvas_w = 512
    /\ h_pts[2][1] - h_pts[1][1] # h_pts[3][1] - h_pts[2][1]

\* C5: a render pass draws the background first, then every character exactly
\* once, a smaller z before a larger z and, among equal z, in list order.
C5_DrawOrder ==
    composite # <<>> =>
        LET n == Len(characters)
            src(k) == composite[k + 1].src
        IN  /\ composite[1].kind = "bg"
            /\ Len(composite) = n + 1
            /\ \A k \in 1..n : composite[k + 1].kind = "sprite"
            /\ {src(k) : k \in 1..n} = 1..n
            /\ \A a, b \in 1..n :
                  a < b =>
                     \/ characters[src(a)].z < characters[src(b)].z
                     \/ /\ characters[src(a)].z = characters[src(b)].z
                        /\ src(a) < src(b)

C5_Witness ==
    /\ pc = "export" /\ Len(characters) = 3
    /\ characters[1].z = characters[3].z
    /\ characters[2].z < characters[1].z

C7_PdfFailureIsolated ==
    (pc = "idle" /\ pdf_raised) =>
        /\ pdf_bytes.kind = "None"
        /\ pdf_disabled
        /\ png_bytes = image_to_bytes(compose(characters, canvas_w, canvas_h))
        /\ scene_dict = make_scene_dict(prompt, canvas_w, canvas_h, characters)

C7_Witness ==
    pc = "idle" /\ pdf_raised /\ Len(characters) = 2 /\ png_bytes.kind = "png"

\* C8: the fallback spacing never divides by zero: for every total >= 0 and
\* index >= 0 the divisor is not 0 and a pair is returned; and every call made
\* by the add and reposition-all handlers has total >= 1.
C8_NoDivisionByZero ==
    /\ \A total \in 0..MaxN : \A index \in 0..MaxN :
          /\ fallback_divisor(total) # 0
          /\ LET xy == fallback_spot(canvas_w, canvas_h, index, total)
             IN  Len(xy) = 2 /\ xy[1] \in Int /\ xy[2] \in Int
    /\ \A c \in 1..Len(infer_calls) : infer_calls[c][2] >= 1

C8_Witness ==
    /\ JustAdded /\ prompt = PlainPrompt
    /\ Len(infer_calls) = 1 /\ infer_calls[1][2] = 1

\* C9: removing a character deletes exactly that character: the others keep
\* all their fields and their order in the list.
C9_RemoveExactlyThat ==
    [][ (pc = "controls" /\ Len(characters') = Len(characters) - 1) =>
          characters' = remove_at(characters, order[ci + 1]) ]_vars

\* C10: every character's position is inside the canvas, 0 <= x <= W and
\* 0 <= y <= H.
C10_InsideCanvas ==
    \A i \in 1..Len(characters) :
        /\ 0 <= characters[i].x /\ characters[i].x <= canvas_w
        /\ 0 <= characters[i].y /\ characters[i].y <= canvas_h

=============================================================================
